---- MODULE Spec2Model ----
(***************************************************************************)
(* ALLCools/_extract_allc.py: extraction of context- and strand-specific   *)
(* streams from a sorted ALLC record stream.                               *)
(*                                                                         *)
(* An ALLC line is the list line.split('\t'):                              *)
(*   <<chrom, pos, strand, context, mc, cov, flag>>                        *)
(* Python index i is index i+1 here.  The numeric fields are held as       *)
(* integers (the code converts with int() and str()).                      *)
(***************************************************************************)
EXTENDS Integers, Sequences, FiniteSets, TLC

\* ------------------------------------------------------------- bounds
\* largest position on a chromosome in the streams fed to _merge_cg_strand
MaxPos == 3
\* longest stream fed to _merge_cg_strand
MaxLines == 3
\* largest total-count (cov) of an input record
MaxCount == 2

VARIABLES
    \* _merge_cg_strand: the lines of in_path, the loop position, the locals
    \* prev_line and cur_chrom, and the lines written to out_path
    cg_in, cg_i, prev_line, cur_chrom, cg_out, cg_pc,
    \* extract_allc: the arguments of the call, the lines of allc_path, and
    \* what genome_region_chunks returns for chrom_size_path
    call, allc, regions,
    \* extract_allc: where the call is, its loop counters, what it raised or returned
    pc, ctx_i, line_no, err, result,
    \* extract_allc: the locals region, strandness, out_suffix
    region, strandness, out_suffix,
    \* extract_allc: handle_collect, output_path_collect, context_handle, the
    \* files on disk and the calls of tabix_allc
    handle_collect, output_path_collect, context_handle, files, tabix_calls,
    \* _extract_allc_parallel: the chunk futures, output_records, the merge
    \* futures, real_out_paths, need_tabix and the tabix futures
    tasks, output_records, merges, real_out_paths, need_tabix, tabix_tasks

cgvars == <<cg_in, cg_i, prev_line, cur_chrom, cg_out, cg_pc>>
callvars == <<call, allc, regions>>
ctlvars == <<pc, ctx_i, line_no, err, result>>
locvars == <<region, strandness, out_suffix>>
extvars == <<handle_collect, output_path_collect, context_handle, files, tabix_calls>>
parvars == <<tasks, output_records, merges, real_out_paths, need_tabix, tabix_tasks>>
mainvars == <<callvars, ctlvars, locvars, extvars, parvars>>
vars == <<cgvars, mainvars>>

\* ------------------------------------------------------------- records
None == <<>>
NoChrom == "None"

Chroms == <<"chr1", "chr2">>
Strands == {"+", "-"}

ChromIndex(c) == CHOOSE i \in 1..Len(Chroms) : Chroms[i] = c

\* (chromosome, position) order of the input file
Before(a, b) ==
    \/ ChromIndex(a[1]) < ChromIndex(b[1])
    \/ a[1] = b[1] /\ a[2] < b[2]

IsSorted(s) == \A i \in 1..(Len(s) - 1) : Before(s[i], s[i + 1])

\* All position-sorted streams of at most n lines over the line set L
SortedStreams(L, n) ==
    UNION { {s \in [1..k -> L] : IsSorted(s)} : k \in 0..n }

\* ------------------------------------------------- _merge_cg_strand
\* The CG lines the collapser is fed: the context follows the strand
\* (a CG dinucleotide read on either strand), mc is below cov.
CgLines ==
    { <<Chroms[c], p, s, IF s = "+" THEN "CGA" ELSE "CGT", cov - 1, cov, "1">> :
        c \in 1..Len(Chroms), p \in 1..MaxPos, s \in Strands, cov \in 1..MaxCount }

\* new_line with the total-count of the pending line only
MergedLineNoCovSum(prev, cur) ==
    <<prev[1], prev[2], prev[3], prev[4], prev[5] + cur[5], prev[6], "1">>

\* line 37-38: new_line
MergedLine(prev, cur) ==
    <<prev[1], prev[2], prev[3], prev[4], prev[5] + cur[5], prev[6] + cur[6], "1">>

\* line 36: pos should be continuous, strand should be reverse
IsPair(prev, cur) == prev[2] + 1 = cur[2] /\ prev[3] # cur[3]

\* one iteration that does not write the pending line when the chromosome changes
MergeCgIterNoChromFlush(st, cur_line) ==
    IF cur_line[1] # st.cur_chrom
    THEN [prev_line |-> cur_line, cur_chrom |-> cur_line[1], out |-> st.out]
    ELSE IF st.prev_line = None
    THEN [st EXCEPT !.prev_line = cur_line]
    ELSE IF IsPair(st.prev_line, cur_line)
    THEN [st EXCEPT !.out = Append(st.out, MergedLine(st.prev_line, cur_line)),
                    !.prev_line = None]
    ELSE [st EXCEPT !.out = Append(st.out, st.prev_line),
                    !.prev_line = cur_line]

\* lines 24-44: one iteration of `for line in allc` on the loop state
\* st = [prev_line, cur_chrom, out]
MergeCgIter(st, cur_line) ==
    IF cur_line[1] # st.cur_chrom
    THEN [prev_line |-> cur_line,
          cur_chrom |-> cur_line[1],
          out |-> IF st.prev_line # None THEN Append(st.out, st.prev_line) ELSE st.out]
    ELSE IF st.prev_line = None
    THEN [st EXCEPT !.prev_line = cur_line]
    ELSE IF IsPair(st.prev_line, cur_line)
    THEN [st EXCEPT !.out = Append(st.out, MergedLine(st.prev_line, cur_line)),
                    !.prev_line = None]
    ELSE [st EXCEPT !.out = Append(st.out, st.prev_line),
                    !.prev_line = cur_line]

\* line 18-19 and the with-block: the whole pass over a file's lines
RECURSIVE MergeCgLoop(_, _, _)
MergeCgLoop(st, lines, i) ==
    IF i > Len(lines) THEN st ELSE MergeCgLoop(MergeCgIter(st, lines[i]), lines, i + 1)

\* _merge_cg_strand(in_path, out_path): the lines written to out_path
MergeCgStrand(lines) ==
    MergeCgLoop([prev_line |-> None, cur_chrom |-> NoChrom, out |-> <<>>], lines, 1).out

\* ------------------------------------------------- extract_allc: parameters
\* line 168: the default of cov_cutoff
DefaultCovCutoff == 9999

\* lines 48-58: _check_strandness_parameter; Lower is str(x).lower() on the
\* tokens the model draws
Lower(tok) ==
    CASE tok = "Both" -> "both"
      [] tok = "B" -> "b"
      [] tok = "MergeTmp" -> "mergetmp"
      [] tok = "Merge" -> "merge"
      [] tok = "Split" -> "split"
      [] tok = "ALLC" -> "allc"
      [] tok = "BED5" -> "bed5"
      [] OTHER -> tok

Invalid == "ValueError"

\* _check_strandness_parameter falling back to 'Both' instead of raising
CheckStrandnessLenient(tok) ==
    LET t == Lower(tok)
    IN IF t \in {"both", "b"} THEN "Both"
       ELSE IF t \in {"merge", "m"} THEN "MergeTmp"
       ELSE IF t \in {"split", "s"} THEN "Split"
       ELSE "Both"

CheckStrandnessParameter(tok) ==
    LET t == Lower(tok)
    IN IF t \in {"both", "b"} THEN "Both"
       ELSE IF t \in {"merge", "m"} THEN "MergeTmp"
       ELSE IF t \in {"split", "s"} THEN "Split"
       ELSE Invalid

\* lines 61-77: _check_out_format_parameter, the suffix it returns
CheckOutFormatParameter(tok) ==
    LET t == Lower(tok)
    IN IF t = "allc" THEN "allc.tsv.gz"
       ELSE IF t = "bed5" THEN "bed5.bed.gz"
       ELSE Invalid

\* lines 62-69: the line function bound to the suffix
LineFunc(suffix, l) ==
    IF suffix = "allc.tsv.gz" THEN l ELSE <<l[1], l[2], l[2], l[5], l[6]>>

\* 'allc' in suffix (line 313), 'allc' in suffix (line 141)
HasAllc(suffix) == suffix = "allc.tsv.gz"

\* utilities.parse_mc_pattern: the concrete contexts an IUPAC pattern matches
ParseMcPattern(mc_context) ==
    CASE mc_context = "CGN" -> {"CGA", "CGC", "CGG", "CGT"}
      [] mc_context = "CAN" -> {"CAA", "CAC", "CAG", "CAT"}
      [] mc_context = "CHN" -> {"CAA", "CAC", "CAG", "CAT", "CCA", "CCC", "CCG", "CCT",
                                "CTA", "CTC", "CTG", "CTT"}
      [] OTHER -> {mc_context}

\* 'CG' in mc_context (line 313)
HasCG(mc_context) == mc_context \in {"CGN", "CG"}

\* ------------------------------------------------- files and paths
\* output_prefix + '.<chunk>' + f'.{mc_context}-{strand}.{suffix}'; the
\* calling process writes under the bare prefix (NoChunk)
NoChunk == 0 - 1

Path(chunk, mc_context, strand, suffix) ==
    [chunk |-> chunk, context |-> mc_context, strand |-> strand, suffix |-> suffix]

EmptyMap == [k \in {} |-> <<>>]

\* open(path, 'w'): the file exists and is empty
Truncate(fs, path) == [p \in DOMAIN fs \cup {path} |-> IF p = path THEN <<>> ELSE fs[p]]

\* rm -f path
Remove(fs, path) == [p \in DOMAIN fs \ {path} |-> fs[p]]

\* mv src dst
Move(fs, src, dst) ==
    [p \in (DOMAIN fs \ {src}) \cup {dst} |-> IF p = dst THEN fs[src] ELSE fs[p]]

WriteLine(fs, path, l) == [fs EXCEPT ![path] = Append(@, l)]

\* ------------------------------------------------- regions
\* A reg is a list of coordinate ranges [lo, hi] of the genome laid out
\* chromosome after chromosome; no reg is None.
ExtractMaxPos == 2

Lin(l) == (ChromIndex(l[1]) - 1) * ExtractMaxPos + l[2]

GenomeLen == Len(Chroms) * ExtractMaxPos

ChromRegion(c) == [lo |-> (c - 1) * ExtractMaxPos + 1, hi |-> c * ExtractMaxPos]

\* line 215: ' '.join(chrom_dict.keys())
AllChromsRegion == [c \in 1..Len(Chroms) |-> ChromRegion(c)]

InRange(l, r) == r.lo <= Lin(l) /\ Lin(l) <= r.hi

\* open_allc(allc_path, reg=reg): the lines the reader yields
RECURSIVE ReadRanges(_, _, _)
ReadRanges(lines, reg, i) ==
    IF i > Len(reg) THEN <<>>
    ELSE SelectSeq(lines, LAMBDA l : InRange(l, reg[i])) \o ReadRanges(lines, reg, i + 1)

ReadRegion(lines, reg) == IF reg = None THEN lines ELSE ReadRanges(lines, reg, 1)

\* ------------------------------------------------- extract_allc: the extractor
\* The state of one extract_allc call, est:
\*   handle_collect       list of handles [path, closes] (closes: times closed)
\*   output_path_collect  list of paths
\*   context_handle       routing key -> list of indexes into handle_collect
\*   files                the file system: path -> lines
\*   tabix_calls          the arguments tabix_allc was called with
NewHandle(path) == [path |-> path, closes |-> 0]

\* context_handle[key] = [h] for every key of keys
AddHandleOverwrite(ch, keys, h) ==
    [k \in DOMAIN ch \cup keys |-> IF k \in keys THEN <<h>> ELSE ch[k]]

\* context_handle[key].append(h) for every key of keys
AddHandle(ch, keys, h) ==
    [k \in DOMAIN ch \cup keys |->
        IF k \in keys
        THEN (IF k \in DOMAIN ch THEN Append(ch[k], h) ELSE <<h>>)
        ELSE ch[k]]

\* lines 231-257: one iteration of `for mc_context in mc_contexts`
OpenContext(est, chunk, mc_context, mode, suffix) ==
    LET parsed_context_set == ParseMcPattern(mc_context)
        n == Len(est.handle_collect)
    IN IF mode = "Split"
       THEN LET w == Path(chunk, mc_context, "Watson", suffix)
                c == Path(chunk, mc_context, "Crick", suffix)
            IN [est EXCEPT
                  !.output_path_collect = @ \o <<w, c>>,
                  !.handle_collect = @ \o <<NewHandle(w), NewHandle(c)>>,
                  !.files = Truncate(Truncate(@, w), c),
                  !.context_handle =
                      AddHandle(AddHandle(@, {<<pat, "+">> : pat \in parsed_context_set}, n + 1),
                                {<<pat, "-">> : pat \in parsed_context_set}, n + 2)]
       ELSE LET file_path == Path(chunk, mc_context, mode, suffix)
            IN [est EXCEPT
                  !.output_path_collect =
                      Append(@, IF mode = "MergeTmp"
                                THEN Path(chunk, mc_context, "Merge", suffix)
                                ELSE file_path),
                  !.handle_collect = Append(@, NewHandle(file_path)),
                  !.files = Truncate(@, file_path),
                  !.context_handle = AddHandle(@, parsed_context_set, n + 1)]

\* the routing key without the strand of the line
RoutingKeyWatsonOnly(mode, cur_line) ==
    IF mode = "Split" THEN <<cur_line[4], "+">> ELSE cur_line[4]

\* lines 286, 296: the routing key of a line
RoutingKey(mode, cur_line) ==
    IF mode = "Split" THEN <<cur_line[4], cur_line[3]>> ELSE cur_line[4]

\* context_handle is a defaultdict(list): a missing key gives the empty list
Lookup(ch, key) == IF key \in DOMAIN ch THEN ch[key] ELSE <<>>

\* [h.write(x) for h in hs]
RECURSIVE WriteAll(_, _, _, _, _)
WriteAll(fs, hc, hs, x, i) ==
    IF i > Len(hs) THEN fs
    ELSE WriteAll(WriteLine(fs, hc[hs[i]].path, x), hc, hs, x, i + 1)

\* the coverage test with >= for >
OverCutoffInclusive(cur_line, cov_cutoff) == cur_line[6] >= cov_cutoff

\* line 282 / 292: the coverage test
OverCutoff(cur_line, cov_cutoff) == cur_line[6] > cov_cutoff

\* lines 281-288 / 291-298: one iteration of `for line in allc`
ScanLine(est, mode, suffix, cov_cutoff, cur_line) ==
    IF OverCutoff(cur_line, cov_cutoff) THEN est
    ELSE [est EXCEPT !.files =
            WriteAll(@, est.handle_collect,
                     Lookup(est.context_handle, RoutingKey(mode, cur_line)),
                     LineFunc(suffix, cur_line), 1)]

\* lines 299-300
CloseAll(est) ==
    [est EXCEPT !.handle_collect =
        [i \in DOMAIN @ |-> [@[i] EXCEPT !.closes = @ + 1]]]

\* tabix_allc(path) with one path
TabixOne(calls, path) == Append(calls, [kind |-> "path", arg |-> <<path>>])

\* lines 303-326: one iteration of the post-processing loop
PostContext(est, chunk, mc_context, mode, suffix, tabix) ==
    IF mode = "Split"
    THEN LET w == Path(chunk, mc_context, "Watson", suffix)
             c == Path(chunk, mc_context, "Crick", suffix)
         IN IF tabix
            THEN [est EXCEPT !.tabix_calls = TabixOne(TabixOne(@, w), c)]
            ELSE est
    ELSE IF mode = "MergeTmp"
    THEN LET in_path == Path(chunk, mc_context, mode, suffix)
             cg == HasCG(mc_context) /\ HasAllc(suffix)
             out_path == IF cg THEN Path(chunk, mc_context, "Merge", suffix)
                         ELSE Path(chunk, mc_context, "Both", suffix)
             fs == IF cg
                   THEN Remove([p \in DOMAIN est.files \cup {out_path} |->
                                   IF p = out_path THEN MergeCgStrand(est.files[in_path])
                                   ELSE est.files[p]], in_path)
                   ELSE Move(est.files, in_path, out_path)
         IN [est EXCEPT !.files = fs,
                        !.tabix_calls = IF tabix THEN TabixOne(@, out_path) ELSE @]
    ELSE LET in_path == Path(chunk, mc_context, mode, suffix)
         IN IF tabix THEN [est EXCEPT !.tabix_calls = TabixOne(@, in_path)] ELSE est

\* ------------------------------------------------- a chunk task
\* extract_allc run to its end in a worker process (lines 107-117: reg given,
\* cpu=1, tabix=False), as one step on the shared file system.
RECURSIVE OpenLoop(_, _, _, _, _, _)
OpenLoop(est, chunk, mc_contexts, mode, suffix, i) ==
    IF i > Len(mc_contexts) THEN est
    ELSE OpenLoop(OpenContext(est, chunk, mc_contexts[i], mode, suffix),
                  chunk, mc_contexts, mode, suffix, i + 1)

RECURSIVE ScanLoop(_, _, _, _, _, _)
ScanLoop(est, mode, suffix, cov_cutoff, lines, i) ==
    IF i > Len(lines) THEN est
    ELSE ScanLoop(ScanLine(est, mode, suffix, cov_cutoff, lines[i]),
                  mode, suffix, cov_cutoff, lines, i + 1)

RECURSIVE PostLoop(_, _, _, _, _, _, _)
PostLoop(est, chunk, mc_contexts, mode, suffix, tabix, i) ==
    IF i > Len(mc_contexts) THEN est
    ELSE PostLoop(PostContext(est, chunk, mc_contexts[i], mode, suffix, tabix),
                  chunk, mc_contexts, mode, suffix, tabix, i + 1)

NewEst(fs) ==
    [handle_collect |-> <<>>, output_path_collect |-> <<>>, context_handle |-> EmptyMap,
     files |-> fs, tabix_calls |-> <<>>]

\* the whole of a non-parallel extract_allc: [err, files, result]
ExtractAllcRun(fs, lines, chunk, mc_contexts, strandness_tok, format_tok, reg, cov_cutoff, tabix) ==
    LET mode == CheckStrandnessParameter(strandness_tok)
        suffix == CheckOutFormatParameter(format_tok)
    IN IF mode = Invalid \/ suffix = Invalid
       THEN [err |-> Invalid, files |-> fs, result |-> <<>>, tabix_calls |-> <<>>]
       ELSE LET opened == OpenLoop(NewEst(fs), chunk, mc_contexts, mode, suffix, 1)
                scanned == ScanLoop(opened, mode, suffix, cov_cutoff,
                                    ReadRegion(lines, reg), 1)
                posted == PostLoop(CloseAll(scanned), chunk, mc_contexts, mode,
                                   suffix, tabix, 1)
            IN [err |-> "None", files |-> posted.files,
                result |-> posted.output_path_collect,
                tabix_calls |-> posted.tabix_calls]

\* ------------------------------------------------- _extract_allc_parallel
SeqToSet(q) == { q[i] : i \in DOMAIN q }

\* Path strings are sequences of one-character strings.
Digit(d) ==
    CASE d = 0 -> "0" [] d = 1 -> "1" [] d = 2 -> "2" [] d = 3 -> "3" [] d = 4 -> "4"
      [] d = 5 -> "5" [] d = 6 -> "6" [] d = 7 -> "7" [] d = 8 -> "8" [] d = 9 -> "9"

DigitChars == { Digit(d) : d \in 0..9 }

DigitValue(c) == CHOOSE d \in 0..9 : Digit(d) = c

\* f'{chunk_id}'
RECURSIVE Decimal(_)
Decimal(n) == IF n < 10 THEN <<Digit(n)>> ELSE Decimal(n \div 10) \o <<Digit(n % 10)>>

\* the characters of the pattern, strand and suffix names
Chars(tok) ==
    CASE tok = "CGN" -> <<"C", "G", "N">>
      [] tok = "CHN" -> <<"C", "H", "N">>
      [] tok = "CAN" -> <<"C", "A", "N">>
      [] tok = "Both" -> <<"B", "o", "t", "h">>
      [] tok = "Watson" -> <<"W", "a", "t", "s", "o", "n">>
      [] tok = "Crick" -> <<"C", "r", "i", "c", "k">>
      [] tok = "Merge" -> <<"M", "e", "r", "g", "e">>
      [] tok = "MergeTmp" -> <<"M", "e", "r", "g", "e", "T", "m", "p">>
      [] tok = "allc.tsv.gz" -> <<"a", "l", "l", "c", ".", "t", "s", "v", ".", "g", "z">>
      [] tok = "bed5.bed.gz" -> <<"b", "e", "d", "5", ".", "b", "e", "d", ".", "g", "z">>

\* f'{mc_context}-{strand}.{out_suffix}' (lines 233, 238, 249)
SuffixString(mc_context, strand, suffix) ==
    Chars(mc_context) \o <<"-">> \o Chars(strand) \o <<".">> \o Chars(suffix)

\* lines 108 and 233-249: output_prefix + f'.{chunk_id}.' stripped of the dot at
\* its end, then '.' and the suffix string
PathString(prefix, chunk, sfx) ==
    prefix \o (IF chunk = NoChunk THEN <<>> ELSE <<".">> \o Decimal(chunk)) \o <<".">> \o sfx

\* str.lstrip(chars): leading characters that are in the set chars are dropped
RECURSIVE Lstrip(_, _)
Lstrip(s, chars) ==
    IF s # <<>> /\ Head(s) \in chars THEN Lstrip(Tail(s), chars) ELSE s

\* str.rstrip(chars)
RECURSIVE Rstrip(_, _)
Rstrip(s, chars) ==
    IF s # <<>> /\ s[Len(s)] \in chars THEN Rstrip(SubSeq(s, 1, Len(s) - 1), chars) ELSE s

\* str.strip(chars)
Strip(s, chars) == Rstrip(Lstrip(s, chars), chars)

\* the index of the first sep in s, or 0
FirstSep(s, sep) ==
    IF \E i \in DOMAIN s : s[i] = sep
    THEN CHOOSE i \in DOMAIN s : s[i] = sep /\ \A j \in 1..(i - 1) : s[j] # sep
    ELSE 0

\* line 128: chunk_id, *full_suffix = path.lstrip(output_prefix).strip('.').split('.')
\* line 129: full_suffix = '.'.join(full_suffix)
SplitChunkPath(prefix, path_string) ==
    LET rest == Strip(Lstrip(path_string, SeqToSet(prefix)), {"."})
        i == FirstSep(rest, ".")
    IN IF i = 0 THEN [chunk_id |-> rest, full_suffix |-> <<>>]
       ELSE [chunk_id |-> SubSeq(rest, 1, i - 1),
             full_suffix |-> SubSeq(rest, i + 1, Len(rest))]

\* line 137: astype(int) accepts a string of decimal digits
IsInt(s) == s # <<>> /\ \A i \in DOMAIN s : s[i] \in DigitChars

RECURSIVE ToInt(_)
ToInt(s) ==
    IF s = <<>> THEN 0 ELSE 10 * ToInt(SubSeq(s, 1, Len(s) - 1)) + DigitValue(s[Len(s)])

Contexts == {"CGN", "CHN", "CAN"}
StrandNames == {"Both", "Watson", "Crick", "Merge", "MergeTmp"}
Suffixes == {"allc.tsv.gz", "bed5.bed.gz"}

\* a stream identity: the pattern, strand and suffix of an output file
Stream(mc_context, strand, suffix) ==
    [context |-> mc_context, strand |-> strand, suffix |-> suffix]

\* the stream whose suffix string is sfx; a string that is a bare out_suffix
\* is the stream without pattern and strand, any other string is Unknown
Unknown == Stream("?", "?", "?")

StreamOf(sfx) ==
    LET full == { st \in [context : Contexts, strand : StrandNames, suffix : Suffixes] :
                    SuffixString(st.context, st.strand, st.suffix) = sfx }
        bare == { x \in Suffixes : Chars(x) = sfx }
    IN IF full # {} THEN CHOOSE st \in full : TRUE
       ELSE IF bare # {} THEN Stream("", "", CHOOSE x \in bare : TRUE)
       ELSE Unknown

\* the path string of a file of the model under the prefix of the call
PathStringOf(prefix, path) ==
    PathString(prefix, path.chunk, SuffixString(path.context, path.strand, path.suffix))

\* line 128-129: the chunk_id and full_suffix recovered from a chunk file path
ChunkIdString(path) == SplitChunkPath(call.output_prefix, PathStringOf(call.output_prefix, path)).chunk_id

\* line 137: int(chunk_id)
ChunkIdOf(path) == ToInt(ChunkIdString(path))

FullSuffixOf(path) ==
    StreamOf(SplitChunkPath(call.output_prefix, PathStringOf(call.output_prefix, path)).full_suffix)

\* the order of the strings f'{mc_context}-{strand}.{suffix}' that groupby sorts by
ContextRank(c) ==
    CASE c = "CAN" -> 1 [] c = "CGN" -> 2 [] c = "CHN" -> 3 [] OTHER -> 4

StrandRank(st) ==
    CASE st = "Both" -> 1 [] st = "Crick" -> 2 [] st = "Merge" -> 3
      [] st = "MergeTmp" -> 4 [] st = "Watson" -> 5 [] OTHER -> 6

SuffixBefore(a, b) ==
    \/ ContextRank(a.context) < ContextRank(b.context)
    \/ a.context = b.context /\ StrandRank(a.strand) < StrandRank(b.strand)

\* line 136: the groups of groupby('full_suffix'), in key order
RECURSIVE SortedSuffixes(_)
SortedSuffixes(S) ==
    IF S = {} THEN <<>>
    ELSE LET m == CHOOSE x \in S : \A y \in S \ {x} : SuffixBefore(x, y)
         IN <<m>> \o SortedSuffixes(S \ {m})

\* lines 137-138: the paths of one group, by ascending int(chunk_id)
RECURSIVE OrderedFileList(_)
OrderedFileList(P) ==
    IF P = {} THEN <<>>
    ELSE LET m == CHOOSE x \in P : \A y \in P : ChunkIdOf(x) <= ChunkIdOf(y)
         IN <<m>> \o OrderedFileList(P \ {m})

\* line 139: f'{output_prefix}.{suffix}'
RealFilePath(sfx) == Path(NoChunk, sfx.context, sfx.strand, sfx.suffix)

\* line 136: the group keys of groupby('full_suffix'), in key order
GroupKeys(records) == SortedSuffixes({ FullSuffixOf(r) : r \in SeqToSet(records) })

GroupPaths(records, key) == { r \in SeqToSet(records) : FullSuffixOf(r) = key }

\* line 137: astype(int) raises ValueError on a chunk_id that is no integer
GroupIsInt(records, key) == \A r \in GroupPaths(records, key) : IsInt(ChunkIdString(r))

\* the first group whose astype(int) raises, or one more than the number of groups
FirstBadGroup(records) ==
    LET keys == GroupKeys(records)
        bad == { g \in DOMAIN keys : ~GroupIsInt(records, keys[g]) }
    IN IF bad = {} THEN Len(keys) + 1 ELSE CHOOSE g \in bad : \A h \in bad : g <= h

\* lines 133-145: the merge tasks submitted, one per group, up to the group
\* that raises
MergeTasks(records) ==
    LET keys == GroupKeys(records)
    IN [g \in 1..(FirstBadGroup(records) - 1) |->
          [file_list |-> OrderedFileList(GroupPaths(records, keys[g])),
           output_path |-> RealFilePath(keys[g]),
           status |-> "submitted",
           err |-> "None"]]

\* lines 80-89: _merge_gz_files; a chunk file that cannot be opened ends the task
RECURSIVE MergeGzLoop(_, _, _, _)
MergeGzLoop(fs, file_list, output_path, i) ==
    IF i > Len(file_list) THEN [files |-> fs, err |-> "None"]
    ELSE IF file_list[i] \notin DOMAIN fs THEN [files |-> fs, err |-> "FileNotFoundError"]
    ELSE MergeGzLoop(
            Remove([fs EXCEPT ![output_path] = @ \o fs[file_list[i]]], file_list[i]),
            file_list, output_path, i + 1)

MergeGzFiles(fs, file_list, output_path) ==
    MergeGzLoop(Truncate(fs, output_path), file_list, output_path, 1)

\* ------------------------------------------------- _merge_cg_strand run alone
\* no extract_allc call is in progress
MainIdle ==
    /\ call = None /\ allc = <<>> /\ regions = <<>>
    /\ pc = "idle" /\ ctx_i = 1 /\ line_no = 1 /\ err = "None" /\ result = None
    /\ region = None /\ strandness = "None" /\ out_suffix = "None"
    /\ handle_collect = <<>> /\ output_path_collect = <<>>
    /\ context_handle = EmptyMap /\ files = EmptyMap /\ tabix_calls = <<>>
    /\ tasks = <<>> /\ output_records = <<>> /\ merges = <<>>
    /\ real_out_paths = <<>> /\ need_tabix = <<>> /\ tabix_tasks = <<>>

\* no _merge_cg_strand run of its own is in progress
CgIdle ==
    /\ cg_in = <<>> /\ cg_i = 1 /\ prev_line = None /\ cur_chrom = NoChrom
    /\ cg_out = <<>> /\ cg_pc = "idle"

CgInit ==
    /\ cg_in \in SortedStreams(CgLines, MaxLines)
    /\ cg_i = 1
    /\ prev_line = None
    /\ cur_chrom = NoChrom
    /\ cg_out = <<>>
    /\ cg_pc = "loop"
    /\ MainIdle

CgState == [prev_line |-> prev_line, cur_chrom |-> cur_chrom, out |-> cg_out]

\* the loop of _merge_cg_strand reads the next line
CgReads == cg_pc = "loop" /\ cg_i <= Len(cg_in)

\* the effect of one iteration on the locals and on out_path
CgApply ==
    LET nxt == MergeCgIter(CgState, cg_in[cg_i])
    IN /\ prev_line' = nxt.prev_line
       /\ cur_chrom' = nxt.cur_chrom
       /\ cg_out' = nxt.out
       /\ cg_i' = cg_i + 1
       /\ UNCHANGED <<cg_in, cg_pc>>
       /\ UNCHANGED mainvars

\* lines 25-30: the chromosome changes
CgNewChrom ==
    /\ CgReads
    /\ cg_in[cg_i][1] # cur_chrom
    /\ CgApply

\* lines 31-33: nothing is pending
CgHold ==
    /\ CgReads
    /\ cg_in[cg_i][1] = cur_chrom
    /\ prev_line = None
    /\ CgApply

\* lines 36-40: the pending line and the current line are merged
CgMerge ==
    /\ CgReads
    /\ cg_in[cg_i][1] = cur_chrom
    /\ prev_line # None
    /\ IsPair(prev_line, cg_in[cg_i])
    /\ CgApply

\* lines 42-44: the pending line is written, the current line is held
CgFlush ==
    /\ CgReads
    /\ cg_in[cg_i][1] = cur_chrom
    /\ prev_line # None
    /\ ~IsPair(prev_line, cg_in[cg_i])
    /\ CgApply

\* line 45: end of input, the files are closed and the function returns
CgReturn ==
    /\ cg_pc = "loop"
    /\ cg_i > Len(cg_in)
    /\ cg_pc' = "returned"
    /\ UNCHANGED <<cg_in, cg_i, prev_line, cur_chrom, cg_out>>
    /\ UNCHANGED mainvars

CgNext == CgNewChrom \/ CgHold \/ CgMerge \/ CgFlush \/ CgReturn

SpecCollapse == CgInit /\ [][CgNext]_vars


\* ------------------------------------------------- extract_allc: the call
Est ==
    [handle_collect |-> handle_collect, output_path_collect |-> output_path_collect,
     context_handle |-> context_handle, files |-> files, tabix_calls |-> tabix_calls]

SetEst(e) ==
    /\ handle_collect' = e.handle_collect
    /\ output_path_collect' = e.output_path_collect
    /\ context_handle' = e.context_handle
    /\ files' = e.files
    /\ tabix_calls' = e.tabix_calls

\* lines 212-215: determine region
DetermineRegion ==
    IF call.region = None /\ call.chrom_size_path # "None"
    THEN AllChromsRegion
    ELSE call.region

ConfigValid ==
    /\ CheckStrandnessParameter(call.strandness) # Invalid
    /\ CheckOutFormatParameter(call.output_format) # Invalid

\* lines 209-223 when a check raises ValueError
ConfigError ==
    /\ pc = "start"
    /\ ~ConfigValid
    /\ region' = DetermineRegion
    /\ pc' = "raised"
    /\ err' = Invalid
    /\ UNCHANGED <<ctx_i, line_no, result, strandness, out_suffix>>
    /\ UNCHANGED <<callvars, extvars, parvars, cgvars>>

\* lines 209-223: region, mc_contexts, strandness, out_suffix, line_func
Prepare ==
    /\ pc = "start"
    /\ ConfigValid
    /\ region' = DetermineRegion
    /\ strandness' = CheckStrandnessParameter(call.strandness)
    /\ out_suffix' = CheckOutFormatParameter(call.output_format)
    /\ pc' = "open"
    /\ ctx_i' = 1
    /\ UNCHANGED <<line_no, err, result>>
    /\ UNCHANGED <<callvars, extvars, parvars, cgvars>>

\* lines 230-257: one iteration of the loop that opens the handles
OpenHandles ==
    /\ pc = "open"
    /\ ctx_i <= Len(call.mc_contexts)
    /\ SetEst(OpenContext(Est, NoChunk, call.mc_contexts[ctx_i], strandness, out_suffix))
    /\ ctx_i' = ctx_i + 1
    /\ UNCHANGED <<pc, line_no, err, result>>
    /\ UNCHANGED <<callvars, locvars, parvars, cgvars>>

\* line 263: (cpu > 1) and (region is None)
TakesParallel == call.cpu > 1 /\ region = None

\* lines 263-274: the call is handed to _extract_allc_parallel
DispatchParallel ==
    /\ pc = "open"
    /\ ctx_i > Len(call.mc_contexts)
    /\ TakesParallel
    /\ pc' = "parallel"
    /\ UNCHANGED <<ctx_i, line_no, err, result>>
    /\ UNCHANGED <<callvars, locvars, extvars, parvars, cgvars>>

\* line 278: the input is opened on region
DispatchSingle ==
    /\ pc = "open"
    /\ ctx_i > Len(call.mc_contexts)
    /\ ~TakesParallel
    /\ pc' = "scan"
    /\ line_no' = 1
    /\ UNCHANGED <<ctx_i, err, result>>
    /\ UNCHANGED <<callvars, locvars, extvars, parvars, cgvars>>

Source == ReadRegion(allc, region)

\* lines 282-283 / 292-293: a line over the cutoff is skipped
ScanSkip ==
    /\ pc = "scan"
    /\ line_no <= Len(Source)
    /\ OverCutoff(Source[line_no], call.cov_cutoff)
    /\ line_no' = line_no + 1
    /\ UNCHANGED <<pc, ctx_i, err, result>>
    /\ UNCHANGED <<callvars, locvars, extvars, parvars, cgvars>>

\* lines 284-288 / 294-298: a line is written to the handles of its key
ScanRoute ==
    /\ pc = "scan"
    /\ line_no <= Len(Source)
    /\ ~OverCutoff(Source[line_no], call.cov_cutoff)
    /\ SetEst(ScanLine(Est, strandness, out_suffix, call.cov_cutoff, Source[line_no]))
    /\ line_no' = line_no + 1
    /\ UNCHANGED <<pc, ctx_i, err, result>>
    /\ UNCHANGED <<callvars, locvars, parvars, cgvars>>

\* lines 278-298: reading or writing a line raises; the with-block closes the
\* input and the exception leaves extract_allc
ScanError ==
    /\ pc = "scan"
    /\ line_no <= Len(Source)
    /\ pc' = "raised"
    /\ err' = "IOError"
    /\ UNCHANGED <<ctx_i, line_no, result>>
    /\ UNCHANGED <<callvars, locvars, extvars, parvars, cgvars>>

\* lines 299-300
CloseHandles ==
    /\ pc = "scan"
    /\ line_no > Len(Source)
    /\ SetEst(CloseAll(Est))
    /\ pc' = "post"
    /\ ctx_i' = 1
    /\ UNCHANGED <<line_no, err, result>>
    /\ UNCHANGED <<callvars, locvars, parvars, cgvars>>

PostStep ==
    /\ pc = "post"
    /\ ctx_i <= Len(call.mc_contexts)
    /\ SetEst(PostContext(Est, NoChunk, call.mc_contexts[ctx_i], strandness, out_suffix,
                          call.tabix))
    /\ ctx_i' = ctx_i + 1
    /\ UNCHANGED <<pc, line_no, err, result>>
    /\ UNCHANGED <<callvars, locvars, parvars, cgvars>>

\* lines 304-310
PostSplit ==
    /\ strandness = "Split"
    /\ PostStep

\* lines 311-322
PostMerge ==
    /\ strandness = "MergeTmp"
    /\ PostStep

\* lines 323-326
PostBoth ==
    /\ strandness = "Both"
    /\ PostStep

\* line 327
Return ==
    /\ pc = "post"
    /\ ctx_i > Len(call.mc_contexts)
    /\ pc' = "done"
    /\ result' = output_path_collect
    /\ UNCHANGED <<ctx_i, line_no, err>>
    /\ UNCHANGED <<callvars, locvars, extvars, parvars, cgvars>>

\* ------------------------------------------------- _extract_allc_parallel: the call
\* chunk ids are those of enumerate(regions)
ChunkIds == 0..(Len(regions) - 1)

\* lines 100-118: one extract_allc task is submitted per region
ParSubmit ==
    /\ pc = "parallel"
    /\ tasks' = [k \in 1..Len(regions) |->
                    [chunk_id |-> k - 1, status |-> "submitted", err |-> "None",
                     result |-> <<>>]]
    /\ pc' = "collect"
    /\ UNCHANGED <<ctx_i, line_no, err, result>>
    /\ UNCHANGED <<output_records, merges, real_out_paths, need_tabix, tabix_tasks>>
    /\ UNCHANGED <<callvars, locvars, extvars, cgvars>>

\* lines 107-117: a worker runs the extract_allc of one chunk to its end; it is
\* given the strandness and mc_contexts locals of the calling extract_allc
ChunkRun(k) ==
    /\ pc \in {"collect", "abort"}
    /\ tasks[k].status = "submitted"
    /\ LET run == ExtractAllcRun(files, allc, tasks[k].chunk_id, call.mc_contexts,
                                 strandness, call.output_format, <<regions[k]>>,
                                 call.cov_cutoff, FALSE)
       IN /\ files' = run.files
          /\ tasks' = [tasks EXCEPT ![k].status = "finished",
                                    ![k].err = run.err,
                                    ![k].result = run.result]
    /\ UNCHANGED <<ctlvars, callvars, locvars>>
    /\ UNCHANGED <<handle_collect, output_path_collect, context_handle, tabix_calls>>
    /\ UNCHANGED <<output_records, merges, real_out_paths, need_tabix, tabix_tasks>>
    /\ UNCHANGED cgvars

\* lines 107-117: the extract_allc of one chunk raises when it opens its input
\* (line 278), after its handles are opened
ChunkRunFails(k) ==
    /\ pc \in {"collect", "abort"}
    /\ tasks[k].status = "submitted"
    /\ \A j \in DOMAIN tasks : tasks[j].err = "None"
    /\ CheckStrandnessParameter(strandness) # Invalid
    /\ files' = OpenLoop(NewEst(files), tasks[k].chunk_id, call.mc_contexts,
                         CheckStrandnessParameter(strandness),
                         CheckOutFormatParameter(call.output_format), 1).files
    /\ tasks' = [tasks EXCEPT ![k].status = "finished", ![k].err = "IOError"]
    /\ UNCHANGED <<ctlvars, callvars, locvars>>
    /\ UNCHANGED <<handle_collect, output_path_collect, context_handle, tabix_calls>>
    /\ UNCHANGED <<output_records, merges, real_out_paths, need_tabix, tabix_tasks>>
    /\ UNCHANGED cgvars

\* the paths of a finished future are collected whether or not its task raised
CollectUnchecked(k) ==
    /\ pc = "collect"
    /\ tasks[k].status = "finished"
    /\ tasks' = [tasks EXCEPT ![k].status = "collected"]
    /\ output_records' = output_records \o tasks[k].result
    /\ UNCHANGED <<ctlvars, callvars, locvars, extvars, cgvars>>
    /\ UNCHANGED <<merges, real_out_paths, need_tabix, tabix_tasks>>

\* lines 121-123: as_completed yields a finished future, its paths are collected
Collect(k) ==
    /\ pc = "collect"
    /\ tasks[k].status = "finished"
    /\ tasks[k].err = "None"
    /\ tasks' = [tasks EXCEPT ![k].status = "collected"]
    /\ output_records' = output_records \o tasks[k].result
    /\ UNCHANGED <<ctlvars, callvars, locvars, extvars, cgvars>>
    /\ UNCHANGED <<merges, real_out_paths, need_tabix, tabix_tasks>>

\* line 122: future.result() raises what the task raised
CollectRaises(k) ==
    /\ pc = "collect"
    /\ tasks[k].status = "finished"
    /\ tasks[k].err # "None"
    /\ pc' = "abort"
    /\ err' = tasks[k].err
    /\ UNCHANGED <<ctx_i, line_no, result>>
    /\ UNCHANGED <<callvars, locvars, extvars, parvars, cgvars>>

\* line 105: leaving the with-block waits for the tasks still queued or running,
\* then the exception leaves _extract_allc_parallel and extract_allc
ParRaise ==
    /\ pc = "abort"
    /\ \A k \in DOMAIN tasks : tasks[k].status # "submitted"
    /\ pc' = "raised"
    /\ UNCHANGED <<ctx_i, line_no, err, result>>
    /\ UNCHANGED <<callvars, locvars, extvars, parvars, cgvars>>

\* lines 126-145: the paths are grouped by suffix, one merge task per group
SubmitMerges ==
    /\ pc = "collect"
    /\ \A k \in DOMAIN tasks : tasks[k].status = "collected"
    /\ FirstBadGroup(output_records) > Len(GroupKeys(output_records))
    /\ LET ms == MergeTasks(output_records)
       IN /\ merges' = ms
          /\ real_out_paths' = [g \in DOMAIN ms |-> ms[g].output_path]
          \* line 141-142: need_tabix.append(real_out_paths), the list itself
          /\ need_tabix' = SelectSeq([g \in DOMAIN ms |-> g],
                                     LAMBDA g : call.tabix /\ HasAllc(ms[g].output_path.suffix))
    /\ pc' = "merge"
    /\ UNCHANGED <<ctx_i, line_no, err, result>>
    /\ UNCHANGED <<tasks, output_records, tabix_tasks>>
    /\ UNCHANGED <<callvars, locvars, extvars, cgvars>>

\* lines 136-137: astype(int) raises in the loop over the groups; the merge
\* tasks of the groups before it are already submitted
SubmitMergesRaises ==
    /\ pc = "collect"
    /\ \A k \in DOMAIN tasks : tasks[k].status = "collected"
    /\ FirstBadGroup(output_records) <= Len(GroupKeys(output_records))
    /\ LET ms == MergeTasks(output_records)
       IN /\ merges' = ms
          /\ real_out_paths' = [g \in DOMAIN ms |-> ms[g].output_path]
          /\ need_tabix' = SelectSeq([g \in DOMAIN ms |-> g],
                                     LAMBDA g : call.tabix /\ HasAllc(ms[g].output_path.suffix))
    /\ pc' = "mergeabort"
    /\ err' = Invalid
    /\ UNCHANGED <<ctx_i, line_no, result>>
    /\ UNCHANGED <<tasks, output_records, tabix_tasks>>
    /\ UNCHANGED <<callvars, locvars, extvars, cgvars>>

\* lines 143-145, 80-89: a worker runs one _merge_gz_files; nothing reads its future
MergeRun(g) ==
    /\ pc \in {"merge", "mergeabort"}
    /\ merges[g].status = "submitted"
    /\ LET run == MergeGzFiles(files, merges[g].file_list, merges[g].output_path)
       IN /\ files' = run.files
          /\ merges' = [merges EXCEPT ![g].status = "finished", ![g].err = run.err]
    /\ UNCHANGED <<ctlvars, callvars, locvars, cgvars>>
    /\ UNCHANGED <<handle_collect, output_path_collect, context_handle, tabix_calls>>
    /\ UNCHANGED <<tasks, output_records, real_out_paths, need_tabix, tabix_tasks>>

\* lines 83-88: an I/O error ends _merge_gz_files after n files are appended
\* and removed; the exception stays in the future, which nothing reads. One
\* task fails in a call at most.
MergeFails(g) ==
    /\ pc \in {"merge", "mergeabort"}
    /\ merges[g].status = "submitted"
    /\ \A h \in DOMAIN merges : merges[h].err = "None"
    /\ \E n \in 0..(Len(merges[g].file_list) - 1) :
          files' = MergeGzFiles(files, SubSeq(merges[g].file_list, 1, n),
                                merges[g].output_path).files
    /\ merges' = [merges EXCEPT ![g].status = "finished", ![g].err = "IOError"]
    /\ UNCHANGED <<ctlvars, callvars, locvars, cgvars>>
    /\ UNCHANGED <<handle_collect, output_path_collect, context_handle, tabix_calls>>
    /\ UNCHANGED <<tasks, output_records, real_out_paths, need_tabix, tabix_tasks>>

\* the merge pool is left as soon as one merge task is finished
MergesDoneSome == \E g \in DOMAIN merges : merges[g].status = "finished"

\* line 135: leaving the with-block waits for every merge task
MergesDone == \A g \in DOMAIN merges : merges[g].status = "finished"

\* line 135: leaving the with-block waits for the merge tasks submitted, then
\* the ValueError leaves _extract_allc_parallel and extract_allc
MergeAbortRaise ==
    /\ pc = "mergeabort"
    /\ MergesDone
    /\ pc' = "raised"
    /\ UNCHANGED <<ctx_i, line_no, err, result>>
    /\ UNCHANGED <<callvars, locvars, extvars, parvars, cgvars>>

\* lines 146-149: one tabix_allc task is submitted per entry of need_tabix
SubmitTabix ==
    /\ pc = "merge"
    /\ MergesDone
    /\ call.tabix
    /\ tabix_tasks' = [t \in DOMAIN need_tabix |-> "submitted"]
    /\ pc' = "tabix"
    /\ UNCHANGED <<ctx_i, line_no, err, result>>
    /\ UNCHANGED <<tasks, output_records, merges, real_out_paths, need_tabix>>
    /\ UNCHANGED <<callvars, locvars, extvars, cgvars>>

\* line 149: a worker calls tabix_allc(path), path being an entry of need_tabix
TabixRun(t) ==
    /\ pc = "tabix"
    /\ tabix_tasks[t] = "submitted"
    /\ tabix_tasks' = [tabix_tasks EXCEPT ![t] = "finished"]
    /\ tabix_calls' = Append(tabix_calls, [kind |-> "list", arg |-> real_out_paths])
    /\ UNCHANGED <<ctlvars, callvars, locvars, cgvars>>
    /\ UNCHANGED <<handle_collect, output_path_collect, context_handle, files>>
    /\ UNCHANGED <<tasks, output_records, merges, real_out_paths, need_tabix>>

\* line 149: tabix_allc raises in the worker; nothing reads its future
TabixFails(t) ==
    /\ pc = "tabix"
    /\ tabix_tasks[t] = "submitted"
    /\ \A u \in DOMAIN tabix_tasks : tabix_tasks[u] # "failed"
    /\ tabix_tasks' = [tabix_tasks EXCEPT ![t] = "failed"]
    /\ tabix_calls' = Append(tabix_calls, [kind |-> "list", arg |-> real_out_paths])
    /\ UNCHANGED <<ctlvars, callvars, locvars, cgvars>>
    /\ UNCHANGED <<handle_collect, output_path_collect, context_handle, files>>
    /\ UNCHANGED <<tasks, output_records, merges, real_out_paths, need_tabix>>

\* line 151 after the pools are left
ParReturn ==
    /\ \/ pc = "merge" /\ MergesDone /\ ~call.tabix
       \/ pc = "tabix" /\ \A t \in DOMAIN tabix_tasks : tabix_tasks[t] # "submitted"
    /\ pc' = "done"
    /\ result' = real_out_paths
    /\ UNCHANGED <<ctx_i, line_no, err>>
    /\ UNCHANGED <<callvars, locvars, extvars, parvars, cgvars>>

\* ------------------------------------------------- the calls checked
\* input lines of extract_allc: calls on the first chromosome, on either strand,
\* in a CG and a CH context, with a total-count of 1 or of MaxCount
ExtractLines ==
    { <<Chroms[1], p, s, ctx, cov - 1, cov, "1">> :
        p \in 1..ExtractMaxPos, s \in Strands, ctx \in {"CGA", "CAA"},
        cov \in {1, MaxCount} }

\* longest input of an extract_allc call
MaxExtractLines == 2

\* most chunks genome_region_chunks returns
MaxChunks == 2

\* contiguous chunks covering the genome, cut after the coordinates of cuts
RECURSIVE ChunksFrom(_, _)
ChunksFrom(lo, cuts) ==
    IF cuts = {} THEN <<[lo |-> lo, hi |-> GenomeLen]>>
    ELSE LET m == CHOOSE x \in cuts : \A y \in cuts : x <= y
         IN <<[lo |-> lo, hi |-> m]>> \o ChunksFrom(m + 1, cuts \ {m})

\* genome_region_chunks: every partition of the genome into at most n chunks
ChunkPartitions(n) ==
    { ChunksFrom(1, cuts) : cuts \in { c \in SUBSET (1..(GenomeLen - 1)) : Cardinality(c) < n } }

\* output_prefix 'out', and 's.1' whose characters include a dot and a digit
PlainPrefix == <<"o", "u", "t">>
DottedPrefix == <<"s", ".", "1">>

Calls(strandnesses, formats, context_lists, cutoffs, tabixes, dispatches) ==
    { [strandness |-> st, output_format |-> f, mc_contexts |-> m, cov_cutoff |-> cut,
       tabix |-> tb, region |-> d.region, chrom_size_path |-> d.chrom_size_path,
       cpu |-> d.cpu, output_prefix |-> PlainPrefix] :
        st \in strandnesses, f \in formats, m \in context_lists, cut \in cutoffs,
        tb \in tabixes, d \in dispatches }

\* the same calls under another output_prefix
WithPrefix(calls, prefix) == { [c EXCEPT !.output_prefix = prefix] : c \in calls }

Dispatch(reg, chrom_size_path, cpu) ==
    [region |-> reg, chrom_size_path |-> chrom_size_path, cpu |-> cpu]

\* the state when extract_allc is entered: no output file exists
InitCall(calls, inputs, partitions) ==
    /\ call \in calls
    /\ allc \in inputs
    /\ regions \in (IF call.cpu > 1 /\ call.region = None /\ call.chrom_size_path = "None"
                    THEN partitions ELSE {<<>>})
    /\ pc = "start" /\ ctx_i = 1 /\ line_no = 1 /\ err = "None" /\ result = None
    /\ region = None /\ strandness = "None" /\ out_suffix = "None"
    /\ handle_collect = <<>> /\ output_path_collect = <<>>
    /\ context_handle = EmptyMap /\ files = EmptyMap /\ tabix_calls = <<>>
    /\ tasks = <<>> /\ output_records = <<>> /\ merges = <<>>
    /\ real_out_paths = <<>> /\ need_tabix = <<>> /\ tabix_tasks = <<>>
    /\ CgIdle

\* list(set(mc_contexts)): the requested patterns, overlapping ones in either order
ContextLists == {<<"CGN", "CHN">>, <<"CHN", "CAN">>, <<"CAN", "CHN">>}

StrandnessTokens == {"both", "b", "merge", "m", "split", "s", "Split", "MergeTmp", "x"}
FormatTokens == {"allc", "bed5", "BED5", "bed"}

\* region='chr1:1-1'
ExplicitRegion == <<[lo |-> 1, hi |-> 1]>>

Dispatches ==
    { Dispatch(r, c, n) : r \in {None, ExplicitRegion}, c \in {"None", "chrom.sizes"},
                          n \in {1, 2} }

Modes == {"both", "merge", "split"}
Formats == {"allc", "bed5"}

\* calls that scan the whole input, in every mode, format and cutoff
InitScan ==
    InitCall(Calls(Modes, Formats, ContextLists, {1, DefaultCovCutoff}, {TRUE},
                   {Dispatch(None, "chrom.sizes", 1)}),
             SortedStreams(ExtractLines, MaxExtractLines), {<<>>})

\* calls with every strandness and output_format token
InitTokens ==
    InitCall(Calls(StrandnessTokens, FormatTokens, {<<"CGN", "CHN">>},
                   {DefaultCovCutoff}, {TRUE}, {Dispatch(None, "chrom.sizes", 1)}),
             SortedStreams(ExtractLines, 1), {<<>>})

\* the inputs of the calls that are chunked: at most one CG line of total-count 1
DispatchInputs ==
    SortedStreams({ l \in ExtractLines : l[4] = "CGA" /\ l[6] = 1 }, 1)

\* the genome as one chunk, and cut after its first base
DispatchPartitions == {ChunksFrom(1, {}), ChunksFrom(1, {1})}

\* calls with every combination of region, chrom_size_path and cpu
InitDispatch ==
    InitCall(Calls(Modes, Formats, {<<"CGN", "CHN">>}, {DefaultCovCutoff},
                   {TRUE, FALSE}, Dispatches),
             DispatchInputs, DispatchPartitions)

\* calls that reach _extract_allc_parallel, on every input and chunking
InitParallel ==
    InitCall(Calls(Modes, {"allc"}, {<<"CGN", "CHN">>}, {DefaultCovCutoff},
                   {TRUE}, {Dispatch(None, "None", 2)}),
             SortedStreams(ExtractLines, MaxExtractLines), ChunkPartitions(MaxChunks))

\* parallel calls under an output_prefix that holds a dot and a digit
InitPrefix ==
    InitCall(WithPrefix(Calls({"both", "split"}, {"allc"}, {<<"CGN", "CHN">>},
                              {DefaultCovCutoff}, {TRUE}, {Dispatch(None, "None", 2)}),
                        DottedPrefix),
             DispatchInputs, DispatchPartitions)

\* single-pass calls with a cutoff of 1
InitSkip ==
    InitCall(Calls({"both"}, {"allc"}, {<<"CGN", "CHN">>}, {1}, {TRUE},
                   {Dispatch(None, "chrom.sizes", 1)}),
             SortedStreams(ExtractLines, 1), {<<>>})

Init == InitScan \/ InitTokens \/ InitDispatch \/ InitPrefix

Next ==
    \/ ConfigError \/ Prepare \/ OpenHandles \/ DispatchParallel \/ DispatchSingle
    \/ ScanSkip \/ ScanRoute \/ ScanError \/ CloseHandles
    \/ PostSplit \/ PostMerge \/ PostBoth \/ Return
    \/ ParSubmit
    \/ \E k \in DOMAIN tasks : ChunkRun(k)
    \/ \E k \in DOMAIN tasks : ChunkRunFails(k)
    \/ \E k \in DOMAIN tasks : Collect(k)
    \/ \E k \in DOMAIN tasks : CollectRaises(k)
    \/ ParRaise \/ SubmitMerges \/ SubmitMergesRaises
    \/ \E g \in DOMAIN merges : MergeRun(g)
    \/ \E g \in DOMAIN merges : MergeFails(g)
    \/ MergeAbortRaise \/ SubmitTabix
    \/ \E t \in DOMAIN tabix_tasks : TabixRun(t)
    \/ \E t \in DOMAIN tabix_tasks : TabixFails(t)
    \/ ParReturn

Spec == Init /\ [][Next]_vars

\* the same program on the calls that reach _extract_allc_parallel
SpecParallel ==
    (InitParallel \/ InitPrefix \/ InitTokens \/ InitSkip) /\ [][Next]_vars

\* ------------------------------------------------- claims on _merge_cg_strand
\* input lines i and i+1 are on one chromosome, at p and p+1, on opposite strands
Adjacent(i) ==
    /\ i >= 1 /\ i < Len(cg_in)
    /\ cg_in[i][1] = cg_in[i + 1][1]
    /\ IsPair(cg_in[i], cg_in[i + 1])

\* input line i is the second line of a pair, pairs being taken left to right
RECURSIVE ClosesPair(_)
ClosesPair(i) == i > 1 /\ Adjacent(i - 1) /\ ~ClosesPair(i - 1)

\* the output lines at the chromosome and position of input line i
OutAt(i) == { k \in DOMAIN cg_out : cg_out[k][1] = cg_in[i][1] /\ cg_out[k][2] = cg_in[i][2] }

\* the line the claim expects for input lines i and i+1: the fields of line i,
\* mc and cov summed, flag "1"
ExpectedMerge(i) ==
    <<cg_in[i][1], cg_in[i][2], cg_in[i][3], cg_in[i][4],
      cg_in[i][5] + cg_in[i + 1][5], cg_in[i][6] + cg_in[i + 1][6], "1">>

Occurrences(seq, x) == Cardinality({ k \in DOMAIN seq : seq[k] = x })

\* C2 as stated: every two input lines at p and p+1 on opposite strands of one
\* chromosome give exactly one output line at p, holding the sums and flag "1".
C2_AsStated ==
    cg_pc = "returned" =>
        \A i \in 1..(Len(cg_in) - 1) :
            Adjacent(i) =>
                /\ Cardinality(OutAt(i)) = 1
                /\ \A k \in OutAt(i) : cg_out[k] = ExpectedMerge(i)

\* C2 amended: two input lines at p and p+1 on opposite strands of one chromosome,
\* the line at p not already merged with the line at p-1, give exactly one output
\* line at p: the fields of the line at p with mc and cov summed and flag "1".
C2_PendingPairMerged ==
    cg_pc = "returned" =>
        \A i \in 1..(Len(cg_in) - 1) :
            (Adjacent(i) /\ ~ClosesPair(i)) =>
                /\ Cardinality(OutAt(i)) = 1
                /\ \A k \in OutAt(i) : cg_out[k] = ExpectedMerge(i)

\* a pair is merged right after an earlier line of the same chromosome was flushed
C2_Witness ==
    /\ cg_pc = "returned"
    /\ \E i \in 2..(Len(cg_in) - 1) :
          /\ Adjacent(i) /\ ~ClosesPair(i)
          /\ cg_in[i - 1][1] = cg_in[i][1]
          /\ ExpectedMerge(i) \in { cg_out[k] : k \in DOMAIN cg_out }

\* C3: when the collapser returns, every input line that is not part of a merged
\* pair is in the output exactly once, unchanged.
C3_UnmergedEmittedOnce ==
    cg_pc = "returned" =>
        \A i \in 1..Len(cg_in) :
            (~ClosesPair(i) /\ ~ClosesPair(i + 1)) => Occurrences(cg_out, cg_in[i]) = 1

\* ------------------------------------------------- claims on extract_allc
\* the call went through the scan loop of extract_allc itself
ScanStates == pc = "scan" \/ (pc = "post" /\ ctx_i = 1)

\* the input lines the scan loop has gone through
Scanned == IF pc = "scan" THEN SubSeq(Source, 1, line_no - 1) ELSE Source

HandlePaths == { handle_collect[i].path : i \in DOMAIN handle_collect }

\* the pattern of the file at path expands to the context of line l, and the
\* strand of l is that of a Watson (+) or Crick (-) file
Matches(path, l) ==
    /\ l[4] \in ParseMcPattern(path.context)
    /\ path.strand = "Watson" => l[3] = "+"
    /\ path.strand = "Crick" => l[3] = "-"

Passes(l, cutoff) == l[6] <= cutoff

Bed5Requested == call.output_format \in {"bed5", "BED5"}

\* the output line of input line l in the requested format
Formatted(l) == IF Bed5Requested THEN <<l[1], l[2], l[2], l[5], l[6]>> ELSE l

\* the total-count field of an output line
CovOfOutput(x) == IF Bed5Requested THEN x[5] ELSE x[6]

\* what the file at path must hold after the lines of src: the lines that pass
\* the cutoff and match the file, formatted, in input order
ExpectedFile(path, src, cutoff) ==
    LET sel == SelectSeq(src, LAMBDA l : Passes(l, cutoff) /\ Matches(path, l))
    IN [i \in DOMAIN sel |-> Formatted(sel[i])]

RECURSIVE IsSubseqFrom(_, _, _, _)
IsSubseqFrom(a, b, i, j) ==
    IF i > Len(a) THEN TRUE
    ELSE IF j > Len(b) THEN FALSE
    ELSE IF a[i] = b[j] THEN IsSubseqFrom(a, b, i + 1, j + 1)
    ELSE IsSubseqFrom(a, b, i, j + 1)

IsSubseq(a, b) == IsSubseqFrom(a, b, 1, 1)

\* the files the scan loop writes from the opened handles under another cutoff
ScanUnder(cutoff) ==
    ScanLoop([Est EXCEPT !.files = [q \in DOMAIN files |-> <<>>]],
             strandness, out_suffix, cutoff, Scanned, 1).files

CutoffsCompared == (0..MaxCount) \cup {DefaultCovCutoff}

\* C4: no line with total-count above the cutoff is in a handle's file, a line
\* at or below the cutoff that matches a handle is in its file, and what a
\* handle is written under a cutoff is a sub-sequence of what it is written
\* under any larger cutoff.
C4_CoverageCutoff ==
    ScanStates =>
        \A path \in HandlePaths :
            /\ \A k \in DOMAIN files[path] : CovOfOutput(files[path][k]) <= call.cov_cutoff
            /\ \A i \in DOMAIN Scanned :
                  (Passes(Scanned[i], call.cov_cutoff) /\ Matches(path, Scanned[i]))
                      => Occurrences(files[path], Formatted(Scanned[i])) = 1
            /\ \A c \in CutoffsCompared :
                  /\ c >= call.cov_cutoff => IsSubseq(files[path], ScanUnder(c)[path])
                  /\ c <= call.cov_cutoff => IsSubseq(ScanUnder(c)[path], files[path])

\* a scan under cutoff 1 has skipped a line that a handle would have taken and
\* written another
C4_Witness ==
    /\ pc = "post" /\ ctx_i = 1
    /\ call.cov_cutoff = 1
    /\ \E path \in HandlePaths :
          /\ files[path] # <<>>
          /\ \E i \in DOMAIN Source : Matches(path, Source[i]) /\ Source[i][6] > 1
          /\ Len(ScanUnder(DefaultCovCutoff)[path]) > Len(files[path])

\* C5: in Split mode, in the scan of extract_allc and after it, a line output
\* for a pattern is exactly once in the pattern's Watson file and not in its
\* Crick file when its strand is '+', the reverse when it is '-', and a Watson
\* (Crick) file holds only lines of '+' ('-') input.
C5_SplitByStrand ==
    (strandness = "Split" /\ pc \in {"scan", "post", "done"} /\ tasks = <<>>) =>
        \A m \in SeqToSet(call.mc_contexts) :
            LET w == Path(NoChunk, m, "Watson", out_suffix)
                c == Path(NoChunk, m, "Crick", out_suffix)
            IN /\ \A i \in DOMAIN Scanned :
                    (Passes(Scanned[i], call.cov_cutoff)
                        /\ Scanned[i][4] \in ParseMcPattern(m)) =>
                      /\ Occurrences(files[w], Formatted(Scanned[i]))
                            = (IF Scanned[i][3] = "+" THEN 1 ELSE 0)
                      /\ Occurrences(files[c], Formatted(Scanned[i]))
                            = (IF Scanned[i][3] = "-" THEN 1 ELSE 0)
               /\ \A k \in DOMAIN files[w] :
                    \E i \in DOMAIN Scanned :
                        Formatted(Scanned[i]) = files[w][k] /\ Scanned[i][3] = "+"
               /\ \A k \in DOMAIN files[c] :
                    \E i \in DOMAIN Scanned :
                        Formatted(Scanned[i]) = files[c][k] /\ Scanned[i][3] = "-"

\* a Split call has returned with a line in a Watson file and a line in a Crick file
C5_Witness ==
    /\ strandness = "Split" /\ pc = "done"
    /\ \E m \in SeqToSet(call.mc_contexts) :
          /\ files[Path(NoChunk, m, "Watson", out_suffix)] # <<>>
          /\ files[Path(NoChunk, m, "Crick", out_suffix)] # <<>>

\* C6: through the scan loop every handle's file holds exactly the lines that
\* pass the cutoff and match the handle's pattern (and strand, in Split mode),
\* once each, in input order, and nothing was raised.
C6_Routing ==
    ScanStates =>
        /\ err = "None"
        /\ \A path \in HandlePaths :
              files[path] = ExpectedFile(path, Scanned, call.cov_cutoff)

\* a scan wrote one line to the handles of two overlapping patterns and wrote
\* another line, which passed the cutoff, to no handle
C6_Witness ==
    /\ pc = "post" /\ ctx_i = 1
    /\ \E i \in DOMAIN Source :
          /\ Passes(Source[i], call.cov_cutoff)
          /\ Cardinality({ path \in HandlePaths :
                             Formatted(Source[i]) \in SeqToSet(files[path]) }) = 2
    /\ \E i \in DOMAIN Source :
          /\ Passes(Source[i], call.cov_cutoff)
          /\ \A path \in HandlePaths : ~Matches(path, Source[i])

\* the tokens of the calls checked that the claim accepts, in any case
AcceptedStrandness == {"both", "b", "merge", "m", "split", "s", "Split"}
AcceptedFormats == {"allc", "bed5", "BED5"}

\* the files written under the prefix of chunk task k
ChunkFiles(k) == { q \in DOMAIN files : q.chunk = tasks[k].chunk_id }

TookParallel == pc \in {"parallel", "collect", "abort", "merge", "tabix"} \/ tasks # <<>>

\* the call went on in extract_allc itself
TookSingle == pc \in {"scan", "post"} \/ (pc \in {"done", "raised"} /\ tasks = <<>> /\ err # "ValueError")

\* the call is over: extract_allc has returned or raised
Over == pc \in {"done", "raised"}

\* the single-pass extract_allc of the same arguments and input with cpu=1
SinglePass ==
    ExtractAllcRun(EmptyMap, allc, NoChunk, call.mc_contexts, call.strandness,
                   call.output_format, call.region, call.cov_cutoff, call.tabix)

\* no read or write failed in the call or in one of its tasks
NoIoFailure ==
    /\ err # "IOError"
    /\ \A k \in DOMAIN tasks : tasks[k].err # "IOError"
    /\ \A g \in DOMAIN merges : merges[g].err = "None"
    /\ \A t \in DOMAIN tabix_tasks : tabix_tasks[t] # "failed"

\* C1: when the parallel path is over and no read or write failed, every file
\* that the single-pass extract_allc leaves for the same arguments and input
\* exists with the same lines.
C1_ParallelEqualsSinglePass ==
    (Over /\ TookParallel /\ NoIoFailure) =>
        \A q \in DOMAIN SinglePass.files :
            q \in DOMAIN files /\ files[q] = SinglePass.files[q]

\* C7: when extract_allc has returned or raised, every handle it opened has been
\* closed exactly once.
C7_HandlesClosedOnce ==
    Over => \A i \in DOMAIN handle_collect : handle_collect[i].closes = 1

\* C9: the call takes the parallel path exactly when cpu > 1 and the caller
\* passed no region.
C9_ParallelIffCpuAndNoRegion ==
    /\ TookParallel => (call.cpu > 1 /\ call.region = None)
    /\ TookSingle => ~(call.cpu > 1 /\ call.region = None)

\* C10: a non-parallel call returns one path per handle, in the order the
\* handles were created, each naming a file that exists; in merge mode the
\* temporary files are gone.
C10_ReturnedPathsExist ==
    (pc = "done" /\ TookSingle) =>
        /\ Len(result) = Len(handle_collect)
        /\ \A i \in DOMAIN result :
              /\ result[i] \in DOMAIN files
              /\ result[i].context = handle_collect[i].path.context
              /\ strandness # "MergeTmp" => result[i] = handle_collect[i].path
        /\ \A q \in DOMAIN files : q.strand # "MergeTmp"

\* ------------------------------------------------- claims on _extract_allc_parallel
\* the final paths of ALLC format
AllcFinalPaths == { q \in SeqToSet(real_out_paths) : HasAllc(q.suffix) }

\* the tabix_allc invocations that were given the one path q
TabixCallsOn(q) ==
    { i \in DOMAIN tabix_calls : tabix_calls[i].kind = "path" /\ tabix_calls[i].arg = <<q>> }

\* C11: when a parallel call with tabix has returned and nothing failed,
\* tabix_allc was invoked exactly once on each final ALLC file, every invocation
\* was given one path, and that path is a final ALLC file.
C11_TabixOncePerAllcFile ==
    (pc = "done" /\ TookParallel /\ call.tabix /\ NoIoFailure) =>
        /\ \A q \in AllcFinalPaths : Cardinality(TabixCallsOn(q)) = 1
        /\ \A i \in DOMAIN tabix_calls :
              /\ tabix_calls[i].kind = "path"
              /\ \E q \in AllcFinalPaths : tabix_calls[i].arg = <<q>>

\* a chunk task has raised
ChunkFailed(k) == tasks[k].status # "submitted" /\ tasks[k].err # "None"

\* C12: once a chunk task has raised, no merge task and no tabix task exists,
\* the call does not return, and when it is over it has raised.
C12_ChunkFailureAborts ==
    (\E k \in DOMAIN tasks : ChunkFailed(k)) =>
        /\ merges = <<>> /\ tabix_tasks = <<>> /\ tabix_calls = <<>>
        /\ pc \in {"collect", "abort", "raised"}
        /\ pc = "raised" => err # "None"

\* a chunk task raised on a read after another chunk task was collected, and
\* the call has raised
C12_Witness ==
    /\ pc = "raised"
    /\ \E k, j \in DOMAIN tasks :
          /\ tasks[k].err = "IOError"
          /\ tasks[j].status = "collected"

\* C13: a merge task exists only when every chunk task has returned and been
\* collected, and a tabix task exists only when every merge task has returned.
C13_StagesSequenced ==
    /\ merges # <<>> => \A k \in DOMAIN tasks : tasks[k].status = "collected"
    /\ tabix_tasks # <<>> => \A g \in DOMAIN merges : merges[g].status = "finished"

\* a tabix task has run after two merge tasks that followed two chunk tasks
C13_Witness ==
    /\ Len(tasks) >= 2 /\ Len(merges) >= 2
    /\ \E t \in DOMAIN tabix_tasks : tabix_tasks[t] = "finished"

\* the extract_allc run of chunk task k on its own
ChunkRunOf(k) ==
    ExtractAllcRun(EmptyMap, allc, tasks[k].chunk_id, call.mc_contexts, strandness,
                   call.output_format, <<regions[k]>>, call.cov_cutoff, FALSE)

\* the lines chunk task k writes for the stream of the final path q
ChunkContent(k, q) ==
    LET cq == Path(tasks[k].chunk_id, q.context, q.strand, q.suffix)
    IN IF cq \in DOMAIN ChunkRunOf(k).files THEN ChunkRunOf(k).files[cq] ELSE <<>>

\* the chunk contents of the stream of q, from chunk task k on, by ascending chunk id
RECURSIVE ConcatChunks(_, _)
ConcatChunks(q, k) ==
    IF k > Len(tasks) THEN <<>> ELSE ChunkContent(k, q) \o ConcatChunks(q, k + 1)

\* C14: whatever the order in which the tasks ran, the file written by a merge
\* task that finished without error is the concatenation of the chunk files of
\* its stream, one per chunk, by ascending chunk id.
C14_FinalFileIsOrderedConcat ==
    \A g \in DOMAIN merges :
        (merges[g].status = "finished" /\ merges[g].err = "None") =>
            /\ Len(merges[g].file_list) = Len(tasks)
            /\ files[merges[g].output_path] = ConcatChunks(merges[g].output_path, 1)

\* C15: the chunk_id and the full_suffix recovered from every collected chunk
\* file path are the chunk id of its task and the suffix of its stream.
C15_PathRoundTrip ==
    \A r \in SeqToSet(output_records) :
        /\ ChunkIdString(r) = Decimal(r.chunk)
        /\ FullSuffixOf(r) = Stream(r.context, r.strand, r.suffix)

\* the paths on which extract_allc holds an open write handle
OpenHandlePaths ==
    { handle_collect[i].path : i \in { j \in DOMAIN handle_collect : handle_collect[j].closes = 0 } }

\* C16: no merge task has written through a handle of its own to a path on
\* which the calling extract_allc holds an open write handle.
C16_OneWriterPerPath ==
    \A g \in DOMAIN merges :
        merges[g].status = "finished" => merges[g].output_path \notin OpenHandlePaths

\* C17: when a parallel call has returned, no chunk file is left.
C17_ChunkFilesDeleted ==
    (pc = "done" /\ TookParallel) => \A q \in DOMAIN files : q.chunk = NoChunk

\* a merge task or a tabix task has raised
LateFailure ==
    \/ \E g \in DOMAIN merges : merges[g].err # "None"
    \/ \E t \in DOMAIN tabix_tasks : tabix_tasks[t] = "failed"

\* C19: a parallel call in which a merge task or a tabix task raised does not
\* return: when it is over, it has raised.
C19_LateFailureRaised ==
    (Over /\ TookParallel /\ LateFailure) => pc = "raised"

\* C20: the strandness handed to the chunk tasks is accepted by
\* _check_strandness_parameter and selects the same mode, and no chunk task
\* raises the configuration error.
C20_StrandnessIdempotent ==
    tasks # <<>> =>
        /\ CheckStrandnessParameter(strandness) = strandness
        /\ \A k \in DOMAIN tasks : tasks[k].err # Invalid

\* ------------------------------------------------- C18 on _merge_cg_strand
\* the last input line is neither merged nor followed by a line
LastPending == Len(cg_in) > 0 /\ ~ClosesPair(Len(cg_in))

\* the output the claim expects from input line i on: the second line of a
\* pair adds nothing, the first line of a pair gives the merged line, the last
\* line when it is pending is dropped, any other line is emitted unchanged
RECURSIVE ExpectedOut(_)
ExpectedOut(i) ==
    IF i > Len(cg_in) THEN <<>>
    ELSE IF ClosesPair(i) THEN ExpectedOut(i + 1)
    ELSE IF i < Len(cg_in) /\ ClosesPair(i + 1) THEN <<ExpectedMerge(i)>> \o ExpectedOut(i + 1)
    ELSE IF i = Len(cg_in) THEN <<>>
    ELSE <<cg_in[i]>> \o ExpectedOut(i + 1)

\* the sum of field f over the lines of seq
RECURSIVE FieldSum(_, _)
FieldSum(seq, f) == IF seq = <<>> THEN 0 ELSE Head(seq)[f] + FieldSum(Tail(seq), f)

\* the count in field f of the dropped line, 0 when no line is dropped
Dropped(f) == IF LastPending THEN cg_in[Len(cg_in)][f] ELSE 0

\* C18: when _merge_cg_strand has returned, every input line but a pending last
\* line is in exactly one output line, merged or unchanged, in input order; the
\* line still pending is the last input line; the sums of mc and of cov over the
\* output are those over the input less the counts of the dropped line.
C18_OnlyPendingLastDropped ==
    cg_pc = "returned" =>
        /\ cg_out = ExpectedOut(1)
        /\ (prev_line # None) = LastPending
        /\ prev_line # None => prev_line = cg_in[Len(cg_in)]
        /\ FieldSum(cg_out, 5) = FieldSum(cg_in, 5) - Dropped(5)
        /\ FieldSum(cg_out, 6) = FieldSum(cg_in, 6) - Dropped(6)

\* a run over two chromosomes that merged a pair and dropped the pending last
\* line
C18_Witness ==
    /\ cg_pc = "returned"
    /\ Len(cg_in) >= 3
    /\ LastPending
    /\ \E i \in DOMAIN cg_in : ClosesPair(i)
    /\ cg_in[1][1] # cg_in[Len(cg_in)][1]

====
